---------------------------- MODULE Spec2Model ----------------------------
(***************************************************************************)
(* A model of mastodon-block-enum: the object store (src/database.rs),     *)
(* the record builder, the merge reducer, the brute-force search and the   *)
(* fetch / process / crack / show verbs (src/main.rs).                     *)
(*                                                                         *)
(* Strings are sequences of bytes (Rust's str is UTF-8; every string of    *)
(* the model is ASCII), so that length, ordering, prefixes, the ':' of a   *)
(* composite key and the '*' of a mask are what they are in the program.   *)
(***************************************************************************)
EXTENDS Integers, Sequences, FiniteSets, TLC

(***************************************************************************)
(* Part 1. Strings, Option, BTreeSet.                                      *)
(***************************************************************************)

\* Option<T>
None == [some |-> FALSE]
Some(v) == [some |-> TRUE, val |-> v]

\* The byte of '*', the wildcard marker of a mask.
STAR == 42

\* The byte of ':', the separator of a composite object key.
COLON == 58

\* Ord for str / String: bytewise lexicographic, a proper prefix first.
RECURSIVE StrLess(_, _)
StrLess(a, b) ==
    IF b = <<>> THEN FALSE
    ELSE IF a = <<>> THEN TRUE
    ELSE IF Head(a) # Head(b) THEN Head(a) < Head(b)
    ELSE StrLess(Tail(a), Tail(b))

\* A BTreeSet<String> / the key set of a BTreeMap<String, _> is held as the
\* strictly ascending sequence of its elements (its iteration order).
RECURSIVE BTreeInsert(_, _)
BTreeInsert(set, s) ==
    IF set = <<>> THEN <<s>>
    ELSE IF Head(set) = s THEN set
    ELSE IF StrLess(s, Head(set)) THEN <<s>> \o set
    ELSE <<Head(set)>> \o BTreeInsert(Tail(set), s)

\* Iterator::collect::<BTreeSet<_>>() of the items of a sequence, in order.
RECURSIVE CollectFrom(_, _)
CollectFrom(acc, items) ==
    IF items = <<>> THEN acc
    ELSE CollectFrom(BTreeInsert(acc, Head(items)), Tail(items))

Collect(items) == CollectFrom(<<>>, items)

Elems(seq) == {seq[i] : i \in 1..Len(seq)}

IsAscending(seq) == \A i \in 1..(Len(seq) - 1) : StrLess(seq[i], seq[i + 1])

\* The sorted sequence of a finite set of strings.
RECURSIVE SortedSeq(_)
SortedSeq(S) ==
    IF S = {} THEN <<>>
    ELSE LET m == CHOOSE x \in S : \A y \in S \ {x} : StrLess(x, y)
         IN <<m>> \o SortedSeq(S \ {m})

\* str::contains('*')
Contains(s, b) == \E i \in 1..Len(s) : s[i] = b

\* pattern.chars().filter(|c| *c == '*').count()
CountStar(s) == Cardinality({i \in 1..Len(s) : s[i] = STAR})

(***************************************************************************)
(* Part 2. Digests: SHA-256 and hex.                                       *)
(***************************************************************************)

\* The length of a digest in bytes: [u8; 32].
DIGEST_LEN == 32

\* Sha256 of a string.  SHA-256 itself is not computed: the stand-in maps a
\* string to DIGEST_LEN bytes and, like SHA-256 on the strings a run ever
\* meets, has no collision between strings of at most DIGEST_LEN bytes
\* (byte + 1 marks the positions the string fills, 0 the padding).
Sha256(s) ==
    [i \in 1..DIGEST_LEN |-> IF i <= Len(s) THEN (s[i] + 1) % 256 ELSE 0]

\* hex::encode: two lowercase hex digits per byte.
HEX_CHARS == <<48, 49, 50, 51, 52, 53, 54, 55, 56, 57, 97, 98, 99, 100, 101, 102>>

HexEncode(bytes) ==
    [i \in 1..(2 * Len(bytes)) |->
        LET b == bytes[(i + 1) \div 2]
        IN IF i % 2 = 1 THEN HEX_CHARS[(b \div 16) + 1] ELSE HEX_CHARS[(b % 16) + 1]]

\* The value of a hex digit, -1 for any other byte (hex::decode takes both
\* cases).
HexVal(c) ==
    IF c >= 48 /\ c <= 57 THEN c - 48
    ELSE IF c >= 97 /\ c <= 102 THEN c - 87
    ELSE IF c >= 65 /\ c <= 70 THEN c - 55
    ELSE -1

\* hex::decode: Err on an odd length or a byte that is no hex digit.
HexDecode(s) ==
    IF Len(s) % 2 # 0 \/ \E i \in 1..Len(s) : HexVal(s[i]) < 0
    THEN [ok |-> FALSE]
    ELSE [ok |-> TRUE,
          val |-> [i \in 1..(Len(s) \div 2) |->
                      16 * HexVal(s[2 * i - 1]) + HexVal(s[2 * i])]]

(***************************************************************************)
(* Part 3. The record model: DomainBlock, DomainEntry, builder, merge.     *)
(***************************************************************************)

\* A DomainBlock is [domain |-> String, digest |-> String (hex)].  Its
\* severity and comment are carried through the store untouched and read
\* only by show's printing; no operation branches on them.

\* DomainEntry::get_id
GetId(entry) == HexEncode(entry.digest)

\* A builder that takes the digest to be the hash of the domain string.
TryFromHashesDomain(value) ==
    LET domain_is_known == ~Contains(value.domain, STAR)
    IN [ok |-> TRUE,
        val |-> [digest |-> Sha256(value.domain),
                 known_domain |->
                     IF domain_is_known THEN Some(value.domain) ELSE None,
                 partial_domains |->
                     IF ~domain_is_known
                     THEN BTreeInsert(<<>>, value.domain)
                     ELSE <<>>]]

\* A builder that leaves the mask of a masked domain out of the entry.
TryFromDropsMask(value) ==
    LET decoded == HexDecode(value.digest)
    IN IF ~decoded.ok THEN [ok |-> FALSE]
       ELSE IF Len(decoded.val) # DIGEST_LEN THEN [ok |-> FALSE]
       ELSE [ok |-> TRUE,
             val |-> [digest |-> decoded.val,
                      known_domain |->
                          IF ~Contains(value.domain, STAR)
                          THEN Some(value.domain) ELSE None,
                      partial_domains |-> <<>>]]

\* impl TryFrom<DomainBlock> for DomainEntry
TryFromDomainBlock(value) ==
    LET decoded == HexDecode(value.digest)
    IN IF ~decoded.ok THEN [ok |-> FALSE]
       ELSE IF Len(decoded.val) # DIGEST_LEN THEN [ok |-> FALSE]
       ELSE LET domain_is_known == ~Contains(value.domain, STAR)
            IN [ok |-> TRUE,
                val |-> [digest |-> decoded.val,
                         known_domain |->
                             IF domain_is_known THEN Some(value.domain) ELSE None,
                         partial_domains |->
                             IF ~domain_is_known
                             THEN BTreeInsert(<<>>, value.domain)
                             ELSE <<>>]]

\* Option::or
OptionOr(a, b) == IF a.some THEN a ELSE b

\* A merge that forgets to chain the masks of other.
MergeKeepsOwnMasks(self, other) ==
    [digest |-> self.digest,
     known_domain |-> OptionOr(self.known_domain, other.known_domain),
     partial_domains |-> Collect(self.partial_domains)]

\* DomainEntry::merge: the masks of self chained with those of other and
\* collected into a BTreeSet.
Merge(self, other) ==
    [digest |-> self.digest,
     known_domain |-> OptionOr(self.known_domain, other.known_domain),
     partial_domains |-> Collect(self.partial_domains \o other.partial_domains)]

(***************************************************************************)
(* Part 4. usize arithmetic and the brute-force search.                    *)
(***************************************************************************)

\* A usize is held as USIZE_LIMBS little-endian limbs of 16 bits: 64 bits,
\* the width of usize on the 64-bit targets the program is built for.  The
\* model checker's own integers are 32 bits wide and cannot hold it.
LIMB == 65536

USIZE_LIMBS == 4

\* Limbs enough for 36^32, the count for a mask of 32 wildcards.
WideLimbs == 3 * USIZE_LIMBS

Limbs(n, count) == [k \in 1..count |-> IF k = 1 THEN n ELSE 0]

\* n * m for a small m: the limbs of the product and, last, the carry out.
RECURSIVE MulCarry(_, _, _)
MulCarry(n, m, carry) ==
    IF n = <<>> THEN <<carry>>
    ELSE LET p == Head(n) * m + carry
         IN <<p % LIMB>> \o MulCarry(Tail(n), m, p \div LIMB)

\* One multiplication of the running product by base.
MulStep(acc, base, count) ==
    LET m == MulCarry(acc.val, base, 0)
    IN [val |-> SubSeq(m, 1, count),
        overflow |-> acc.overflow \/ m[count + 1] # 0]

\* acc * base^exp.  The test on `next` makes the evaluator compute each
\* product before the next step instead of nesting them.
RECURSIVE PowFrom(_, _, _, _)
PowFrom(acc, base, exp, count) ==
    IF exp = 0 THEN acc
    ELSE LET next == MulStep(acc, base, count)
         IN IF next.val[count] >= 0 /\ next.overflow \in BOOLEAN
            THEN PowFrom(next, base, exp - 1, count)
            ELSE next

\* base^exp in `count` limbs: the wrapped value and whether a
\* multiplication overflowed on the way.
LimbPow(base, exp, count) ==
    PowFrom([val |-> Limbs(1, count), overflow |-> FALSE], base, exp, count)

\* usize::pow: wraps in a build without overflow checks, panics with them.
UsizePow(base, exp) == LimbPow(base, exp, USIZE_LIMBS)

\* The mathematical base^exp (no wrap up to 36^32).
ExactPow(base, exp) == LimbPow(base, exp, WideLimbs).val

IsZero(n) == \A k \in 1..Len(n) : n[k] = 0

\* A usize small enough to be enumerated, as an integer.
FitsInt(n) == n[2] < 16384 /\ \A k \in 3..Len(n) : n[k] = 0

ToInt(n) == n[1] + LIMB * n[2]

\* const ALPHABET: &[u8; 36] = b"abcdefghijklmnopqrstuvwxyz0123456789"
ALPHABET ==
    <<97, 98, 99, 100, 101, 102, 103, 104, 105, 106, 107, 108, 109, 110, 111,
      112, 113, 114, 115, 116, 117, 118, 119, 120, 121, 122,
      48, 49, 50, 51, 52, 53, 54, 55, 56, 57>>

\* "ab" and "a*"
PAT_AB == <<97, 98>>

PAT_A_STAR == <<97, 42>>

\* The capacity of the candidate buffer: [0u8; 32].
BUFFER_LEN == 32

\* buffer.iter().enumerate().find(|(_, b)| **b == b'*'): the first '*'.
FirstStar(buffer) ==
    CHOOSE k \in 1..Len(buffer) :
        buffer[k] = STAR /\ \A j \in 1..(k - 1) : buffer[j] # STAR

\* The divisor ALPHABET.len().pow(wc_idx) of the closure.
Divisor(wc_idx) == ToInt(UsizePow(Len(ALPHABET), wc_idx).val)

\* The loop `for wc_idx in 0..wildcard_count` of the closure, from wc_idx on.
RECURSIVE PlaceWildcards(_, _, _, _)
PlaceWildcards(buffer, i, wc_idx, wildcard_count) ==
    IF wc_idx >= wildcard_count THEN buffer
    ELSE LET x == (i \div Divisor(wc_idx)) % Len(ALPHABET)
             char_to_place == ALPHABET[x + 1]
             char_index == FirstStar(buffer)
         IN PlaceWildcards([buffer EXCEPT ![char_index] = char_to_place],
                           i, wc_idx + 1, wildcard_count)

\* String::from_utf8_lossy on a buffer of single bytes: an ASCII byte stays,
\* any other byte becomes U+FFFD (EF BF BD).
RECURSIVE FromUtf8Lossy(_)
FromUtf8Lossy(buffer) ==
    IF buffer = <<>> THEN <<>>
    ELSE (IF Head(buffer) < 128 THEN <<Head(buffer)>> ELSE <<239, 191, 189>>)
         \o FromUtf8Lossy(Tail(buffer))

\* The candidate the closure builds for index i: the pattern copied into
\* the buffer, then its wildcards filled.
Candidate(pattern, i) == PlaceWildcards(pattern, i, 0, CountStar(pattern))

\* The closure of find_map_any at index i.
TestIndex(pattern, expected_digest, i) ==
    LET buffer == Candidate(pattern, i)
    IN IF Sha256(buffer) = expected_digest THEN Some(FromUtf8Lossy(buffer))
       ELSE None

(***************************************************************************)
(* Part 5. The object store: DatabaseContent, DatabaseInstance.            *)
(***************************************************************************)

\* DatabaseContent(BTreeMap<String, BTreeMap<String, Value>>): a function
\* from namespace to a function from object key to JSON value.  The empty
\* map is <<>>.
EmptyMap == <<>>

MapInsert(map, k, v) ==
    [x \in (DOMAIN map) \cup {k} |-> IF x = k THEN v ELSE map[x]]

\* get_object_id: format!("{}:{id}", T::KEY_NAME)
GetObjectId(KEY_NAME, id) == KEY_NAME \o <<COLON>> \o id

\* str::split_once(':'): the parts before and after the first separator.
SplitOnce(k, sep) ==
    IF ~Contains(k, sep) THEN None
    ELSE LET p == CHOOSE i \in 1..Len(k) :
                      k[i] = sep /\ \A j \in 1..(i - 1) : k[j] # sep
         IN Some([left |-> SubSeq(k, 1, p - 1), right |-> SubSeq(k, p + 1, Len(k))])

\* DatabaseInstance::use_namespace
UseNamespace(content, namespace) ==
    IF namespace \in DOMAIN content THEN content
    ELSE MapInsert(content, namespace, EmptyMap)

\* DatabaseContent::get (serde_json::from_value of what is stored)
ContentGet(content, namespace, KEY_NAME, id) ==
    LET map == content[namespace]
        key == GetObjectId(KEY_NAME, id)
    IN IF key \in DOMAIN map THEN Some(map[key]) ELSE None

IsPrefix(p, s) == Len(p) <= Len(s) /\ SubSeq(s, 1, Len(p)) = p

\* A get_keys that takes every key starting with the key name
\* (starts_with in place of the comparison of the part before the ':').
RECURSIVE FilterMapKeysByPrefix(_, _)
FilterMapKeysByPrefix(keys, KEY_NAME) ==
    IF keys = <<>> THEN <<>>
    ELSE LET split == SplitOnce(Head(keys), COLON)
         IN (IF split.some /\ IsPrefix(KEY_NAME, Head(keys))
             THEN <<split.val.right>> ELSE <<>>)
            \o FilterMapKeysByPrefix(Tail(keys), KEY_NAME)

\* The filter_map of get_keys over the keys in the map's order.
RECURSIVE FilterMapKeys(_, _)
FilterMapKeys(keys, KEY_NAME) ==
    IF keys = <<>> THEN <<>>
    ELSE LET split == SplitOnce(Head(keys), COLON)
         IN (IF split.some /\ split.val.left = KEY_NAME
             THEN <<split.val.right>> ELSE <<>>)
            \o FilterMapKeys(Tail(keys), KEY_NAME)

\* DatabaseContent::get_keys
ContentGetKeys(content, namespace, KEY_NAME) ==
    FilterMapKeys(SortedSeq(DOMAIN content[namespace]), KEY_NAME)

\* DatabaseContent::set: the new content and whether the key existed.
ContentSet(content, namespace, KEY_NAME, id, json_value) ==
    LET object_id == GetObjectId(KEY_NAME, id)
    IN [content |-> [content EXCEPT
                        ![namespace] = MapInsert(@, object_id, json_value)],
        existed |-> object_id \in DOMAIN content[namespace]]

(***************************************************************************)
(* State.  Four state machines share the module, one variable each:        *)
(*   st   the object store driven by set / get / iter_keys (the tests of   *)
(*        src/database.rs);                                                *)
(*   mg   DomainEntry::merge applied to drawn records;                     *)
(*   bf   one call of brute_force, its parallel search included;           *)
(*   run  the program: the database file and the runs of its verbs.        *)
(***************************************************************************)
VARIABLES st, mg, bf, run

vars == <<st, mg, bf, run>>

Idle == [pc |-> "unused"]

(***************************************************************************)
(* Part 6. The object store under set / get / iter_keys.                   *)
(***************************************************************************)

\* The kinds of the tests: MyDbItem1 and MyDbItem2, whose key name has
\* MyDbItem1's as a prefix.
MY_DB_ITEM_1 == <<109, 121, 95, 100, 98, 95, 105, 116, 101, 109>>

MY_DB_ITEM_2 == <<109, 121, 95, 100, 98, 95, 105, 116, 101, 109, 95, 50>>

StKinds == {MY_DB_ITEM_1, MY_DB_ITEM_2}

\* Object ids: "12" and "1:2" (an id holding the separator).
StIds == {<<49, 50>>, <<49, 58, 50>>}

StNamespaces == {"test_db", "other_db"}

\* The objects of a kind with an id: MyDbItem1 {id, name}, MyDbItem2 {id}.
StObjects(kind, id) ==
    IF kind = MY_DB_ITEM_1
    THEN {[id |-> id, name |-> n] : n \in {"Jeffrey", "Jimmy"}}
    ELSE {[id |-> id]}

\* DatabaseInstance::default(): no namespace.  `last` records, for every
\* (namespace, kind, id) ever set, the object last set; `ret` is what the
\* last operation returned.
StInit ==
    /\ st = [content |-> EmptyMap, last |-> EmptyMap, ret |-> [op |-> "none"]]
    /\ mg = Idle /\ bf = Idle /\ run = Idle

\* db.use_namespace(ns) then dba.set(value)
StSet ==
    /\ \E ns \in StNamespaces, kind \in StKinds, id \in StIds :
          \E value \in StObjects(kind, id) :
             LET content == UseNamespace(st.content, ns)
                 r == ContentSet(content, ns, kind, id, value)
             IN st' = [content |-> r.content,
                       last |-> MapInsert(st.last, <<ns, kind, id>>, value),
                       ret |-> [op |-> "set", existed |-> r.existed,
                                prior |-> <<ns, kind, id>> \in DOMAIN st.last]]
    /\ UNCHANGED <<mg, bf, run>>

\* db.use_namespace(ns) then dba.get::<T>(id)
StGet ==
    /\ \E ns \in StNamespaces, kind \in StKinds, id \in StIds :
          LET content == UseNamespace(st.content, ns)
          IN st' = [st EXCEPT
                       !.content = content,
                       !.ret = [op |-> "get", ns |-> ns, kind |-> kind, id |-> id,
                                value |-> ContentGet(content, ns, kind, id)]]
    /\ UNCHANGED <<mg, bf, run>>

\* db.use_namespace(ns) then dba.iter_keys::<T>().collect()
StIterKeys ==
    /\ \E ns \in StNamespaces, kind \in StKinds :
          LET content == UseNamespace(st.content, ns)
          IN st' = [st EXCEPT
                       !.content = content,
                       !.ret = [op |-> "iter_keys", ns |-> ns, kind |-> kind,
                                ids |-> ContentGetKeys(content, ns, kind)]]
    /\ UNCHANGED <<mg, bf, run>>

StNext == StSet \/ StGet \/ StIterKeys

SpecStore == StInit /\ [][StNext]_vars

\* What the store must answer, from the record of what was set.
StExpectedGet(ns, kind, id) ==
    IF <<ns, kind, id>> \in DOMAIN st.last THEN Some(st.last[<<ns, kind, id>>])
    ELSE None

StExpectedIds(ns, kind) == {id \in StIds : <<ns, kind, id>> \in DOMAIN st.last}

StKeysAre(ids, S) ==
    /\ Elems(ids) = S
    /\ Len(ids) = Cardinality(S)
    /\ IsAscending(ids)

\* C7: within a namespace the store is a map keyed by (kind, id): get of a
\* kind and id returns the object last set for them and is absent when none
\* was; set returns true iff the key existed; iter_keys of a kind yields
\* exactly the ids set for that kind, ascending, never an id of the other
\* kind, whose key name has this one's as a prefix.
C7_StoreIsMap ==
    /\ \A ns \in StNamespaces, kind \in StKinds :
          LET content == UseNamespace(st.content, ns)
          IN /\ \A id \in StIds :
                   ContentGet(content, ns, kind, id) = StExpectedGet(ns, kind, id)
             /\ StKeysAre(ContentGetKeys(content, ns, kind), StExpectedIds(ns, kind))
    /\ st.ret.op = "set" => st.ret.existed = st.ret.prior
    /\ st.ret.op = "get" =>
          st.ret.value = StExpectedGet(st.ret.ns, st.ret.kind, st.ret.id)
    /\ st.ret.op = "iter_keys" =>
          StKeysAre(st.ret.ids, StExpectedIds(st.ret.ns, st.ret.kind))

\* Both kinds hold objects in one namespace, two of the first kind, and
\* iter_keys of the first kind has just answered.
C7_Witness ==
    /\ st.ret.op = "iter_keys"
    /\ st.ret.kind = MY_DB_ITEM_1
    /\ Len(st.ret.ids) = 2
    /\ StExpectedIds(st.ret.ns, MY_DB_ITEM_2) # {}

(***************************************************************************)
(* Part 7. DomainEntry::merge on drawn records.                            *)
(***************************************************************************)

\* "example.com", a second plain domain "examp1e.com", and three masks.
EXAMPLE_COM == <<101, 120, 97, 109, 112, 108, 101, 46, 99, 111, 109>>

EXAMP1E_COM == <<101, 120, 97, 109, 112, 49, 101, 46, 99, 111, 109>>

EX_MPLE_COM == <<101, 120, 42, 109, 112, 108, 101, 46, 99, 111, 109>>

MgMasks ==
    {EX_MPLE_COM,
     <<101, 42, 97, 109, 112, 108, 101, 46, 99, 111, 109>>,
     <<42, 42, 97, 109, 112, 108, 101, 46, 99, 111, 109>>}

\* The records of one digest that the builder and merges of its records
\* yield: a known domain or not, any set of masks, not neither.
MgRecords ==
    {r \in [digest : {Sha256(EXAMPLE_COM)},
            known_domain : {None, Some(EXAMPLE_COM), Some(EXAMP1E_COM)},
            partial_domains : {SortedSeq(S) : S \in SUBSET MgMasks}] :
        r.known_domain.some \/ r.partial_domains # <<>>}

MgInit ==
    /\ \E a \in MgRecords, b \in MgRecords, c \in MgRecords :
          mg = [pc |-> "drawn", a |-> a, b |-> b, c |-> c]
    /\ st = Idle /\ bf = Idle /\ run = Idle

MgMerge ==
    /\ mg.pc = "drawn"
    /\ mg' = [pc |-> "merged", a |-> mg.a, b |-> mg.b, c |-> mg.c,
              ab |-> Merge(mg.a, mg.b),
              ba |-> Merge(mg.b, mg.a),
              ab_c |-> Merge(Merge(mg.a, mg.b), mg.c),
              a_bc |-> Merge(mg.a, Merge(mg.b, mg.c))]
    /\ UNCHANGED <<st, bf, run>>

MgNext == MgMerge

SpecMerge == MgInit /\ [][MgNext]_vars

\* The two records of the scenario, as the builder makes them.
MgSourceA ==
    TryFromDomainBlock([domain |-> EXAMPLE_COM,
                        digest |-> HexEncode(Sha256(EXAMPLE_COM))]).val

MgSourceB ==
    TryFromDomainBlock([domain |-> EX_MPLE_COM,
                        digest |-> HexEncode(Sha256(EXAMPLE_COM))]).val

\* C3: merge(a, b) has the set union of the masks of a and b as its masks
\* (so the masks are the same for merge(b, a), and for both bracketings of
\* three records) and the known domain of a if present, else that of b; the
\* record knowing "example.com" merged in either order with the record
\* holding "ex*mple.com" knows "example.com" and holds {"ex*mple.com"}.
C3_MergeUnion ==
    mg.pc = "merged" =>
        /\ Elems(mg.ab.partial_domains) =
               Elems(mg.a.partial_domains) \cup Elems(mg.b.partial_domains)
        /\ IsAscending(mg.ab.partial_domains)
        /\ mg.ab.partial_domains = mg.ba.partial_domains
        /\ mg.ab_c.partial_domains = mg.a_bc.partial_domains
        /\ mg.ab.known_domain =
               (IF mg.a.known_domain.some THEN mg.a.known_domain
                ELSE mg.b.known_domain)
        /\ ({mg.a, mg.b} = {MgSourceA, MgSourceB} =>
               /\ mg.ab.known_domain = Some(EXAMPLE_COM)
               /\ mg.ab.partial_domains = <<EX_MPLE_COM>>)

\* The scenario's two records have been merged, the masked one first.
C3_Witness ==
    /\ mg.pc = "merged"
    /\ mg.a = MgSourceB
    /\ mg.b = MgSourceA
    /\ mg.ab.known_domain = Some(EXAMPLE_COM)

(***************************************************************************)
(* Part 8. One call of brute_force, with its parallel search.              *)
(*                                                                         *)
(* (0..total_count).into_par_iter().find_map_any(closure): the range is    *)
(* cut into contiguous ranges, one per worker; a worker walks its range,   *)
(* stopping when the shared `found` flag is set, and sets the flag when    *)
(* its closure returns Some; the results are reduced with Option::or.  A   *)
(* worker's step reads the flag and runs the closure on one index at once: *)
(* the closure reads and writes nothing shared, so a flag set between the  *)
(* read and the test changes no outcome that a test run just before the    *)
(* flag was set does not show.                                             *)
(***************************************************************************)

\* The most workers a search is cut for.
MaxWorkers == 2

\* The cuts between workers' ranges fall on multiples of SplitStep.
SplitStep == 6

\* The largest total_count whose indices are enumerated.
MaxTotalCount == 36

Repeat(b, n) == [k \in 1..n |-> b]

\* (pattern, domain): the mask given to brute_force and the domain whose
\* hash is the expected digest.
BfCases ==
    { [pattern |-> PAT_AB, domain |-> PAT_AB],            \* "ab", "ab"
      [pattern |-> PAT_AB, domain |-> <<97, 99>>],        \* "ab", "ac"
      [pattern |-> PAT_A_STAR, domain |-> PAT_AB],        \* "a*", "ab"
      [pattern |-> PAT_A_STAR, domain |-> <<97, 57>>],    \* "a*", "a9"
      [pattern |-> PAT_A_STAR, domain |-> <<97, 46>>],    \* "a*", "a."
      [pattern |-> PAT_A_STAR, domain |-> <<98, 98>>],    \* "a*", "bb"
      [pattern |-> <<>>, domain |-> <<>>],                \* "", ""
      [pattern |-> Repeat(STAR, 13), domain |-> Repeat(97, 13)],
      [pattern |-> Repeat(STAR, BUFFER_LEN), domain |-> Repeat(97, BUFFER_LEN)],
      [pattern |-> Repeat(97, BUFFER_LEN + 1), domain |-> Repeat(97, BUFFER_LEN + 1)] }

\* D matches P positionally: same length, equal wherever P has no wildcard.
MatchesMask(D, P) ==
    /\ Len(D) = Len(P)
    /\ \A k \in 1..Len(P) : P[k] # STAR => D[k] = P[k]

BfInit ==
    /\ \E c \in BfCases :
          bf = [pc |-> "start", pattern |-> c.pattern, domain |-> c.domain,
                expected_digest |-> Sha256(c.domain),
                total_count |-> Limbs(0, USIZE_LIMBS), ranges |-> <<>>,
                pos |-> <<>>, item |-> <<>>, stopped |-> <<>>,
                found |-> FALSE, result |-> None]
    /\ st = Idle /\ mg = Idle /\ run = Idle

\* if pattern.len() > 32 { panic!(..) }
BfTooLong ==
    /\ bf.pc = "start"
    /\ Len(bf.pattern) > BUFFER_LEN
    /\ bf' = [bf EXCEPT !.pc = "panic"]
    /\ UNCHANGED <<st, mg, run>>

\* ALPHABET.len().pow(wildcard_count) in a build with overflow checks (the
\* dev profile): an overflowing multiplication panics.
BfPowPanics ==
    /\ bf.pc = "start"
    /\ Len(bf.pattern) <= BUFFER_LEN
    /\ UsizePow(Len(ALPHABET), CountStar(bf.pattern)).overflow
    /\ bf' = [bf EXCEPT !.pc = "panic"]
    /\ UNCHANGED <<st, mg, run>>

\* The cuts of 0..n into `workers` contiguous ranges.
Cuts(n, workers) ==
    LET points == {k \in 0..n : k % SplitStep = 0}
    IN {c \in [1..(workers - 1) -> points] :
           \A k \in 1..(workers - 2) : c[k] <= c[k + 1]}

RangesOf(n, cut) ==
    [w \in 1..(Len(cut) + 1) |->
        [lo |-> IF w = 1 THEN 0 ELSE cut[w - 1],
         hi |-> IF w = Len(cut) + 1 THEN n ELSE cut[w]]]

\* total_count is computed (wrapping: the release profile, or no overflow
\* at all) and 0..total_count is cut into the workers' ranges.  A count
\* beyond MaxTotalCount is not enumerated: the call is left running.
BfSplit ==
    /\ bf.pc = "start"
    /\ Len(bf.pattern) <= BUFFER_LEN
    /\ LET total == UsizePow(Len(ALPHABET), CountStar(bf.pattern)).val
       IN IF FitsInt(total) /\ ToInt(total) <= MaxTotalCount
          THEN \E workers \in 1..MaxWorkers :
                 \E cut \in Cuts(ToInt(total), workers) :
                    LET ranges == RangesOf(ToInt(total), cut)
                    IN bf' = [bf EXCEPT
                                 !.pc = "search",
                                 !.total_count = total,
                                 !.ranges = ranges,
                                 !.pos = [w \in 1..workers |-> ranges[w].lo],
                                 !.item = [w \in 1..workers |-> None],
                                 !.stopped = [w \in 1..workers |-> FALSE]]
          ELSE bf' = [bf EXCEPT !.pc = "running", !.total_count = total]
    /\ UNCHANGED <<st, mg, run>>

\* One step of a worker's fold: stop if the flag is set or the range is
\* done, else run the closure on the next index.
BfWorker ==
    /\ bf.pc = "search"
    /\ \E w \in 1..Len(bf.ranges) :
          /\ ~bf.stopped[w]
          /\ IF bf.found \/ bf.pos[w] >= bf.ranges[w].hi
             THEN bf' = [bf EXCEPT !.stopped[w] = TRUE]
             ELSE LET r == TestIndex(bf.pattern, bf.expected_digest, bf.pos[w])
                  IN bf' = [bf EXCEPT
                               !.pos[w] = @ + 1,
                               !.item[w] = r,
                               !.found = @ \/ r.some,
                               !.stopped[w] = r.some]
    /\ UNCHANGED <<st, mg, run>>

\* A reduction that keeps the leftmost worker's result only.
ReduceKeepsLeft(items) == IF items = <<>> THEN None ELSE Head(items)

\* The reduction of the workers' results: left.or(right).
RECURSIVE ReduceOr(_)
ReduceOr(items) ==
    IF items = <<>> THEN None ELSE OptionOr(Head(items), ReduceOr(Tail(items)))

\* Every worker has returned: find_map_any returns the reduced result.
BfJoin ==
    /\ bf.pc = "search"
    /\ \A w \in 1..Len(bf.ranges) : bf.stopped[w]
    /\ bf' = [bf EXCEPT !.pc = "done", !.result = ReduceOr(bf.item)]
    /\ UNCHANGED <<st, mg, run>>

BfNext == BfTooLong \/ BfPowPanics \/ BfSplit \/ BfWorker \/ BfJoin

SpecSearch == BfInit /\ [][BfNext]_vars

\* The indices some worker has run the closure on.
BfTested == {i \in 0..(ToInt(bf.total_count) - 1) :
                \E w \in 1..Len(bf.ranges) : bf.ranges[w].lo <= i /\ i < bf.pos[w]}

\* The workers' ranges are disjoint and cover 0..total_count.
BfRangesPartition ==
    \A i \in 0..(ToInt(bf.total_count) - 1) :
        Cardinality({w \in 1..Len(bf.ranges) :
                        bf.ranges[w].lo <= i /\ i < bf.ranges[w].hi}) = 1

RECURSIVE BfRemaining(_)
BfRemaining(w) ==
    IF w = 0 THEN 0
    ELSE (bf.ranges[w].hi - bf.pos[w]) + (IF bf.stopped[w] THEN 0 ELSE 1)
         + BfRemaining(w - 1)

\* What is left of a search: indices to test, workers to stop, the join.
BfMeasure == IF bf.pc = "search" THEN 1 + BfRemaining(Len(bf.ranges)) ELSE 0

BfSearchSafe ==
    /\ bf.pc \in {"search", "done"} => BfRangesPartition
    /\ bf.pc = "done" =>
          /\ bf.result.some =>
                /\ MatchesMask(bf.result.val, bf.pattern)
                /\ Sha256(bf.result.val) = bf.expected_digest
          /\ ~bf.result.some =>
                /\ BfTested = 0..(ToInt(bf.total_count) - 1)
                /\ \A i \in BfTested :
                      ~TestIndex(bf.pattern, bf.expected_digest, i).some
    /\ bf.pc = "search" => ENABLED BfNext

\* C8: for every cut of 0..total_count into per-worker ranges and every
\* interleaving of the workers, the search terminates (every step of a
\* search lowers what is left of it, and a search not yet joined can step);
\* a result Some(s) matches the mask at every non-wildcard position and
\* hashes to the expected digest; the result is None only when every index
\* was tested by some worker without a match.
C8_ParallelSearch ==
    /\ []BfSearchSafe
    /\ [][bf.pc = "search" => BfMeasure' < BfMeasure]_vars

\* A search of two workers has returned a match while the other worker,
\* having tested part of its range, stopped early on the flag.
C8_Witness ==
    /\ bf.pc = "done"
    /\ bf.result.some
    /\ \E w \in 1..Len(bf.ranges) :
          /\ ~bf.item[w].some
          /\ bf.ranges[w].lo < bf.pos[w]
          /\ bf.pos[w] < bf.ranges[w].hi

Widen(n) == [k \in 1..WideLimbs |-> IF k <= Len(n) THEN n[k] ELSE 0]

\* C9: for every accepted mask (at most 32 bytes) the indices enumerated
\* are 36^wildcard_count exactly: neither the total count nor a divisor
\* 36^k overflows or wraps.
C9_CountExact ==
    (bf.pc # "start" /\ Len(bf.pattern) <= BUFFER_LEN) =>
        /\ bf.pc # "panic"
        /\ Widen(bf.total_count) = ExactPow(Len(ALPHABET), CountStar(bf.pattern))
        /\ \A k \in 0..(CountStar(bf.pattern) - 1) :
              ~UsizePow(Len(ALPHABET), k).overflow

\* C1: for every mask P of at most 32 bytes and every domain D matching P
\* positionally, brute_force(P, hash(D)) returns Some(D).
C1_SearchFindsDomain ==
    (/\ bf.pc \in {"done", "panic"}
     /\ Len(bf.pattern) <= BUFFER_LEN
     /\ MatchesMask(bf.domain, bf.pattern)) =>
        /\ bf.pc = "done"
        /\ bf.result = Some(bf.domain)

(***************************************************************************)
(* Part 9. The program: the database file and the runs of the verbs.       *)
(***************************************************************************)

\* use_namespace("mastodon-blocks")
NAMESPACE == "mastodon-blocks"

\* MastodonBlockList::KEY_NAME = "blocklist", DomainEntry::KEY_NAME = "domain"
BLOCKLIST_KEY_NAME == <<98, 108, 111, 99, 107, 108, 105, 115, 116>>

DOMAIN_KEY_NAME == <<100, 111, 109, 97, 105, 110>>

\* The seed domains of the fetch verb, in the order they are asked.
SEED_DOMAINS ==
    << <<109, 97, 115, 116, 111, 100, 111, 110, 46, 115, 111, 99, 105, 97, 108>>,
       <<109, 115, 116, 100, 110, 46, 106, 112>>,
       <<109, 97, 115, 116, 111, 100, 111, 110, 46, 99, 108, 111, 117, 100>>,
       <<109, 97, 115, 116, 111, 100, 111, 110, 46, 111, 110, 108, 105, 110, 101>>,
       <<109, 115, 116, 100, 110, 46, 115, 111, 99, 105, 97, 108>>,
       <<109, 97, 115, 46, 116, 111>>,
       <<104, 111, 109, 101, 46, 115, 111, 99, 105, 97, 108>> >>

\* The seeds whose server may answer; the request to any other seed fails,
\* which try_load_blocklist prints and which leaves the database as it is.
MaxSeeds == 1

Seeds == SubSeq(SEED_DOMAINS, 1, MaxSeeds)

\* DatabaseInstance::load(DATABASE_FILE).unwrap_or_default(): the file is an
\* Option, None when there is no file or its bytes are no JSON document.
Load(disk) == IF disk.some THEN disk.val ELSE EmptyMap

\* serde of DomainEntry: the digest is stored as hex (hex::serde).
SerializeEntry(e) ==
    [digest |-> HexEncode(e.digest),
     known_domain |-> e.known_domain,
     partial_domains |-> e.partial_domains]

DeserializeEntry(v) ==
    [digest |-> HexDecode(v.digest).val,
     known_domain |-> v.known_domain,
     partial_domains |-> v.partial_domains]

\* db.get::<DomainEntry>(id)
DbGetEntry(content, id) ==
    LET v == ContentGet(content, NAMESPACE, DOMAIN_KEY_NAME, id)
    IN IF v.some THEN Some(DeserializeEntry(v.val)) ELSE None

\* db.set(domain_entry)
DbSetEntry(content, e) ==
    ContentSet(content, NAMESPACE, DOMAIN_KEY_NAME, GetId(e), SerializeEntry(e)).content

\* db.set(MastodonBlockList { domain, list })
DbSetBlockList(content, domain, list) ==
    ContentSet(content, NAMESPACE, BLOCKLIST_KEY_NAME, domain,
               [domain |-> domain, list |-> list]).content

\* Every DomainEntry of the store, in key order.
DbEntries(content) ==
    LET keys == ContentGetKeys(content, NAMESPACE, DOMAIN_KEY_NAME)
    IN [k \in 1..Len(keys) |-> DbGetEntry(content, keys[k]).val]

\* Every MastodonBlockList of the store, in key order.
DbBlockLists(content) ==
    LET keys == ContentGetKeys(content, NAMESPACE, BLOCKLIST_KEY_NAME)
    IN [k \in 1..Len(keys) |->
           ContentGet(content, NAMESPACE, BLOCKLIST_KEY_NAME, keys[k]).val]

\* The inner loop of process_db over one block list: Err at the first
\* entry try_into rejects (the `?`), else every entry built, merged with
\* the stored entry of its digest and set.
RECURSIVE ProcessList(_, _)
ProcessList(content, list) ==
    IF list = <<>> THEN [ok |-> TRUE, content |-> content]
    ELSE LET built == TryFromDomainBlock(Head(list))
         IN IF ~built.ok THEN [ok |-> FALSE, content |-> content]
            ELSE LET existing == DbGetEntry(content, GetId(built.val))
                     domain == IF existing.some
                               THEN Merge(built.val, existing.val)
                               ELSE built.val
                 IN ProcessList(DbSetEntry(content, domain), Tail(list))

\* The outer loop of process_db over the block-list keys collected first.
RECURSIVE ProcessThings(_, _)
ProcessThings(content, things) ==
    IF things = <<>> THEN [ok |-> TRUE, content |-> content]
    ELSE LET item == ContentGet(content, NAMESPACE, BLOCKLIST_KEY_NAME,
                                Head(things)).val
             r == ProcessList(content, item.list)
         IN IF ~r.ok THEN r ELSE ProcessThings(r.content, Tail(things))

\* process_db
ProcessDb(content) ==
    ProcessThings(content, ContentGetKeys(content, NAMESPACE, BLOCKLIST_KEY_NAME))

\* The sort key of crack: the least wildcard count over the masks, an
\* Option<usize> (None, the key of no mask, sorts first: -1).
MinWildcards(x) ==
    IF x.partial_domains = <<>> THEN -1
    ELSE LET counts == {CountStar(x.partial_domains[k]) :
                           k \in 1..Len(x.partial_domains)}
         IN CHOOSE c \in counts : \A d \in counts : c <= d

\* sort_by_key is stable: an entry goes after those of no greater key.
RECURSIVE InsertByKey(_, _)
InsertByKey(sorted, x) ==
    IF sorted = <<>> THEN <<x>>
    ELSE IF MinWildcards(x) < MinWildcards(Head(sorted)) THEN <<x>> \o sorted
    ELSE <<Head(sorted)>> \o InsertByKey(Tail(sorted), x)

RECURSIVE SortByKeyFrom(_, _)
SortByKeyFrom(sorted, entries) ==
    IF entries = <<>> THEN sorted
    ELSE SortByKeyFrom(InsertByKey(sorted, Head(entries)), Tail(entries))

\* The entries crack works through: those of no known domain, sorted.
CrackEntries(content) ==
    SortByKeyFrom(<<>>, SelectSeq(DbEntries(content),
                                  LAMBDA x : ~x.known_domain.some))

\* What a call of brute_force can come to: a panic (the pattern too long,
\* or the count overflowing in a build with overflow checks), a return of
\* find_map_any (any match, None when no index matches), or, for a count
\* beyond MaxTotalCount, a search still running.
BruteForce(pattern, expected_digest) ==
    IF Len(pattern) > BUFFER_LEN THEN {[kind |-> "panic"]}
    ELSE LET pow == UsizePow(Len(ALPHABET), CountStar(pattern))
         IN (IF pow.overflow THEN {[kind |-> "panic"]} ELSE {})
            \cup
            (IF ~FitsInt(pow.val) \/ ToInt(pow.val) > MaxTotalCount
             THEN {[kind |-> "running"]}
             ELSE LET hits == {i \in 0..(ToInt(pow.val) - 1) :
                                  TestIndex(pattern, expected_digest, i).some}
                  IN IF hits = {} THEN {[kind |-> "return", value |-> None]}
                     ELSE {[kind |-> "return",
                            value |-> TestIndex(pattern, expected_digest, i)] :
                              i \in hits})

\* The display_domain of show for every entry, or a panic at the unwrap of
\* partial_domains.first().
ShowDomains(content) ==
    LET entries == DbEntries(content)
    IN IF \E k \in 1..Len(entries) :
             ~entries[k].known_domain.some /\ entries[k].partial_domains = <<>>
       THEN [ok |-> FALSE, lines |-> <<>>]
       ELSE [ok |-> TRUE,
             lines |-> [k \in 1..Len(entries) |->
                           IF entries[k].known_domain.some
                           THEN entries[k].known_domain.val
                           ELSE entries[k].partial_domains[1]]]

\* The domains and masks of the block lists: "ab" with its masks "a*" and
\* "**", "cd" with its mask "c*" and the mask "d*" that does not fit it.
DOM_AB == PAT_AB

DOM_CD == <<99, 100>>

MASK_A == PAT_A_STAR

MASK_2 == <<42, 42>>

MASK_C == <<99, 42>>

MASK_D == <<100, 42>>

\* A hex string in upper case.
Upper(hex) == [k \in 1..Len(hex) |-> IF hex[k] >= 97 THEN hex[k] - 32 ELSE hex[k]]

Block(domain, digest) == [domain |-> domain, digest |-> digest]

\* The block lists a seed's server may answer with.
BlockLists ==
    { <<Block(DOM_AB, HexEncode(Sha256(DOM_AB)))>>,
      <<Block(MASK_A, HexEncode(Sha256(DOM_AB))),
        Block(MASK_C, HexEncode(Sha256(DOM_CD)))>>,
      \* a mask of two wildcards under an upper-case digest, a mask that
      \* fits no domain of its digest
      <<Block(MASK_2, Upper(HexEncode(Sha256(DOM_AB)))),
        Block(MASK_D, HexEncode(Sha256(DOM_CD)))>>,
      \* a digest that is no hex ("zz"), then a sound entry
      <<Block(DOM_CD, <<122, 122>>),
        Block(DOM_AB, HexEncode(Sha256(DOM_AB)))>>,
      \* a sound entry, then a digest of two bytes ("6263")
      <<Block(MASK_A, HexEncode(Sha256(DOM_AB))),
        Block(DOM_CD, <<54, 50, 54, 51>>)>>,
      \* a plain domain that is not the one its digest is the hash of
      <<Block(DOM_CD, HexEncode(Sha256(DOM_AB)))>> }

\* The entries of the stored block lists, list after list.
RECURSIVE Concat(_)
Concat(seqs) == IF seqs = <<>> THEN <<>> ELSE Head(seqs) \o Concat(Tail(seqs))

ListedBlocks(content) ==
    LET lists == DbBlockLists(content)
    IN Elems(Concat([k \in 1..Len(lists) |-> lists[k].list]))

\* The digests the entries of the stored block lists supply.
SuppliedBy(content) ==
    {HexDecode(b.digest).val :
        b \in {c \in ListedBlocks(content) : HexDecode(c.digest).ok}}

\* The state of the program.  disk is the file database.json; db is the
\* content in the memory of the running process.  hits and supplied record
\* what has happened: the matches the running crack has found, the digests
\* the block lists of any process_db have supplied.
NoLines == [ok |-> TRUE, lines |-> <<>>]

Init ==
    /\ run = [pc |-> "idle", disk |-> None, db |-> EmptyMap,
              entries |-> <<>>, ei |-> 0, mi |-> 0,
              hits |-> {}, supplied |-> {}, shown |-> NoLines]
    /\ st = Idle /\ mg = Idle /\ bf = Idle

\* real_main up to the match on the verb: load().unwrap_or_default(),
\* use_namespace.
Begin == [run EXCEPT !.db = UseNamespace(Load(run.disk), NAMESPACE)]

\* The end of a run: the process is gone and its memory with it.
End(r) ==
    [r EXCEPT !.pc = "idle", !.db = EmptyMap, !.entries = <<>>,
              !.ei = 0, !.mi = 0, !.hits = {}, !.shown = NoLines]

\* load_blocklist: the request fails (answer None), or db.set of the list.
LoadBlocklist(content, domain, answer) ==
    IF answer.some THEN DbSetBlockList(content, domain, answer.val)
    ELSE content

\* The calls of try_load_blocklist, seed after seed from seed i on.
RECURSIVE LoadSeeds(_, _, _)
LoadSeeds(content, answers, i) ==
    IF i > Len(Seeds) THEN content
    ELSE LoadSeeds(LoadBlocklist(content, Seeds[i], answers[i]), answers, i + 1)

\* process_db(&mut db)?: an Err leaves real_main before the save.
ProcessAndSave(r) ==
    LET p == ProcessDb(r.db)
    IN [r EXCEPT !.pc = IF p.ok THEN "save" ELSE "process_failed",
                 !.db = p.content,
                 !.supplied = @ \cup SuppliedBy(r.db)]

\* The verb fetch: every seed asked, then process_db.
Fetch ==
    /\ run.pc = "idle"
    /\ \E answers \in [1..Len(Seeds) -> {None} \cup {Some(l) : l \in BlockLists}] :
          run' = ProcessAndSave([Begin EXCEPT !.db = LoadSeeds(@, answers, 1)])
    /\ UNCHANGED <<st, mg, bf>>

\* The verb process.
Process ==
    /\ run.pc = "idle"
    /\ run' = ProcessAndSave(Begin)
    /\ UNCHANGED <<st, mg, bf>>

\* The verb show.
Show ==
    /\ run.pc = "idle"
    /\ LET shown == ShowDomains(Begin.db)
       IN run' = [Begin EXCEPT !.shown = shown,
                               !.pc = IF shown.ok THEN "save" ELSE "panic"]
    /\ UNCHANGED <<st, mg, bf>>

\* `for d in &entry.partial_domains` runs no search for an entry of no mask.
RECURSIVE SkipEmpty(_, _)
SkipEmpty(entries, ei) ==
    IF ei <= Len(entries) /\ entries[ei].partial_domains = <<>>
    THEN SkipEmpty(entries, ei + 1)
    ELSE ei

\* The position of the next search after that of mask mi of entry ei.
Advance(r) ==
    IF r.mi < Len(r.entries[r.ei].partial_domains)
    THEN [r EXCEPT !.mi = @ + 1]
    ELSE [r EXCEPT !.ei = SkipEmpty(r.entries, r.ei + 1), !.mi = 1]

\* The verb crack begins: the entries are read, filtered and sorted.
CrackStart ==
    /\ run.pc = "idle"
    /\ LET entries == CrackEntries(Begin.db)
       IN run' = [Begin EXCEPT !.pc = "crack", !.entries = entries,
                               !.ei = SkipEmpty(entries, 1), !.mi = 1]
    /\ UNCHANGED <<st, mg, bf>>

\* One search of crack: brute_force of mask mi of entry ei; on a match the
\* stored entry is read again, given its known domain and set.
CrackSearch ==
    /\ run.pc = "crack"
    /\ run.ei <= Len(run.entries)
    /\ LET entry == run.entries[run.ei]
           d == entry.partial_domains[run.mi]
       IN \E out \in BruteForce(d, entry.digest) :
             /\ out.kind # "running"
             /\ run' =
                  IF out.kind = "panic" THEN [run EXCEPT !.pc = "panic"]
                  ELSE IF ~out.value.some THEN Advance(run)
                  ELSE LET domain == DbGetEntry(run.db, GetId(entry)).val
                       IN [run EXCEPT
                              !.pc = "checkpoint",
                              !.db = DbSetEntry(@, [domain EXCEPT
                                        !.known_domain = Some(out.value.val)]),
                              !.hits = @ \cup {[ei |-> run.ei, id |-> GetId(entry),
                                                found |-> out.value.val]}]
    /\ UNCHANGED <<st, mg, bf>>

\* Every entry searched: crack returns Ok and real_main goes on to its save.
CrackEnd ==
    /\ run.pc = "crack"
    /\ run.ei > Len(run.entries)
    /\ run' = [run EXCEPT !.pc = "save"]
    /\ UNCHANGED <<st, mg, bf>>

\* DatabaseInstance::save, std::fs::write: the file is created or, if it is
\* there, truncated (an empty file is no JSON document), or the call fails
\* before it has touched the file and the `?` ends the run.
SaveTruncate ==
    /\ run.pc \in {"save", "checkpoint"}
    /\ \/ run' = [run EXCEPT !.pc = "failed"]
       \/ run' = [run EXCEPT !.disk = None,
                             !.pc = IF run.pc = "save" THEN "save_write"
                                    ELSE "checkpoint_write"]
    /\ UNCHANGED <<st, mg, bf>>

\* std::fs::write goes on to write the serialized document; after the save
\* of real_main the run is over, after that of crack the loop goes on.
SaveWrite ==
    /\ run.pc \in {"save_write", "checkpoint_write"}
    /\ LET r == [run EXCEPT !.disk = Some(run.db)]
       IN run' = IF run.pc = "save_write" THEN End(r)
                 ELSE Advance([r EXCEPT !.pc = "crack"])
    /\ UNCHANGED <<st, mg, bf>>

\* real_main returns the Err, or the panic unwinds: the process exits.
Exit ==
    /\ run.pc \in {"process_failed", "failed", "panic"}
    /\ run' = End(run)
    /\ UNCHANGED <<st, mg, bf>>

\* The run is interrupted (the process killed) between two of its steps.
Interrupt ==
    /\ run.pc \in {"crack", "checkpoint", "checkpoint_write", "save", "save_write"}
    /\ run' = End(run)
    /\ UNCHANGED <<st, mg, bf>>

Next ==
    \/ Fetch \/ Process \/ Show \/ CrackStart \/ CrackSearch \/ CrackEnd
    \/ SaveTruncate \/ SaveWrite \/ Exit \/ Interrupt

Spec == Init /\ [][Next]_vars

(***************************************************************************)
(* The properties of the program.                                          *)
(***************************************************************************)

\* The Records of the saved document and of the running process's memory.
DiskEntries == Elems(DbEntries(UseNamespace(Load(run.disk), NAMESPACE)))

MemEntries == Elems(DbEntries(UseNamespace(run.db, NAMESPACE)))

\* C2: in every reachable store state every Record whose known_domain is
\* present satisfies hash(known_domain) = digest.
C2_KnownDomainHashes ==
    \A e \in DiskEntries \cup MemEntries :
        e.known_domain.some => Sha256(e.known_domain.val) = e.digest

\* The match h of the running crack is in the saved document.
Saved(h) ==
    LET e == DbGetEntry(UseNamespace(Load(run.disk), NAMESPACE), h.id)
    IN e.some /\ e.val.known_domain = Some(h.found)

\* C4: at any point of a crack run, where an interruption may end it, every
\* match found for an earlier Record is in the saved document.
C4_EarlierMatchesSaved ==
    \A h \in run.hits : h.ei < run.ei => Saved(h)

\* The Record the entry b of a block list comes to is stored in content.
StoredAsRecord(content, b) ==
    LET built == TryFromDomainBlock(b).val
        e == DbGetEntry(content, GetId(built))
    IN /\ e.some
       /\ built.known_domain.some => e.val.known_domain.some
       /\ \A k \in 1..Len(built.partial_domains) :
             built.partial_domains[k] \in Elems(e.val.partial_domains)

\* C5: when process_db meets an entry whose digest is no hex or not of 32
\* bytes, every other entry of every stored block list is still built,
\* merged and stored as a Record.
C5_ErrorIsolated ==
    run.pc = "process_failed" =>
        \A b \in ListedBlocks(run.db) :
            TryFromDomainBlock(b).ok => StoredAsRecord(run.db, b)

\* C6 as stated: there is no orphan Record, every Record of the saved
\* document has a digest that an entry of a stored block list supplies.
C6_NoOrphans ==
    DiskEntries # {} =>
        \A e \in DiskEntries :
            e.digest \in SuppliedBy(UseNamespace(Load(run.disk), NAMESPACE))

\* C6: no Record is created for a digest that no block-list entry supplies:
\* every Record, saved or in memory, has a digest that an entry of a block
\* list stored at some process_db has supplied.  (A Record outlives the
\* entries that supplied it when fetch replaces their list.)
C6_RecordsWereSupplied ==
    \A e \in DiskEntries \cup MemEntries : e.digest \in run.supplied

\* After a fetch that replaced a block list, a Record is in the saved
\* document whose digest no stored block list supplies any more.
C6_Witness ==
    /\ run.pc = "idle"
    /\ \E e \in DiskEntries :
          /\ e.digest \in run.supplied
          /\ e.digest \notin SuppliedBy(UseNamespace(Load(run.disk), NAMESPACE))

\* C10: every stored Record has known_domain present or at least one mask;
\* the displayable domain of show is defined for every Record, and every
\* entry crack sorts has a defined minimum wildcard count.
C10_DisplayableDomain ==
    /\ \A e \in DiskEntries \cup MemEntries :
          e.known_domain.some \/ e.partial_domains # <<>>
    /\ run.shown.ok
    /\ \A k \in 1..Len(run.entries) : MinWildcards(run.entries[k]) >= 0

\* show has displayed a Record of no known domain by its first mask, beside
\* a Record displayed by its known domain.
C10_Witness ==
    /\ run.pc = "save"
    /\ \E k \in 1..Len(run.shown.lines) : Contains(run.shown.lines[k], STAR)
    /\ \E k \in 1..Len(run.shown.lines) : ~Contains(run.shown.lines[k], STAR)
====
